---- MODULE Spec2Model ----
(***************************************************************************)
(* Model of src/src/CaptionedVideo/index.tsx: the CaptionedVideo component *)
(* (subtitle loading behind a delayRender handle) and the mapping of       *)
(* caption pages to <Sequence from=.. durationInFrames=..> intervals.      *)
(*                                                                         *)
(* JavaScript numbers are IEEE-754 doubles.  The frame arithmetic of the   *)
(* component ((startMs / 1000) * fps, + 1200, end - start) is modelled     *)
(* with correctly rounded binary64 operations on non-negative values, so   *)
(* that 0.3-frame durations and one-ulp rounding errors are visible.       *)
(***************************************************************************)
EXTENDS Integers, Sequences, FiniteSets, TLC

----------------------------------------------------------------------------
(* binary64 values.  A non-negative double d is held exactly as a          *)
(* fixed-point number of NLimbs limbs in base Limb, most significant       *)
(* first: d = v[1] + v[2]/Limb + v[3]/Limb^2 + v[4]/Limb^3 + v[5]/Limb^4.  *)
(* v[1] is the integer part; 80 fraction bits hold every double >= 2^-28   *)
(* exactly and leave guard bits for rounding.                              *)

LimbBits == 20
Limb == 2^LimbBits
NLimbs == 5
Mantissa == 53

Zero == [k \in 1..NLimbs |-> 0]

\* Number -> double, exact for the integers the component uses (< 2^20).
FromInt(n) == [k \in 1..NLimbs |-> IF k = 1 THEN n ELSE 0]

IsInteger(v) == \A k \in 2..NLimbs : v[k] = 0

RECURSIVE CmpFrom(_, _, _)
CmpFrom(a, b, k) ==
    IF k > NLimbs THEN 0
    ELSE IF a[k] < b[k] THEN -1
    ELSE IF a[k] > b[k] THEN 1
    ELSE CmpFrom(a, b, k + 1)

\* -1, 0, 1 as a < b, a = b, a > b
Cmp(x, y) == CHOOSE r \in {CmpFrom(a, b, 1) : a \in {x}, b \in {y}} : TRUE
Less(a, b) == Cmp(a, b) < 0
LessEq(a, b) == Cmp(a, b) <= 0

\* carry into limb k of the exact sum a + b (carry[NLimbs] = 0)
RECURSIVE CarryIn(_, _, _)
CarryIn(a, b, k) ==
    IF k = NLimbs THEN 0
    ELSE (a[k + 1] + b[k + 1] + CarryIn(a, b, k + 1)) \div Limb

ExactAdd(a, b) ==
    [k \in 1..NLimbs |->
        IF k = 1 THEN a[k] + b[k] + CarryIn(a, b, k)
        ELSE (a[k] + b[k] + CarryIn(a, b, k)) % Limb]

\* borrow out of limb k+1.. of the exact difference a - b, for a >= b
RECURSIVE BorrowIn(_, _, _)
BorrowIn(a, b, k) ==
    IF k = NLimbs THEN 0
    ELSE IF a[k + 1] - b[k + 1] - BorrowIn(a, b, k + 1) < 0 THEN 1 ELSE 0

ExactSub(a, b) ==
    [k \in 1..NLimbs |->
        IF k = 1 THEN a[k] - b[k] - BorrowIn(a, b, k)
        ELSE (a[k] - b[k] - BorrowIn(a, b, k) + Limb) % Limb]

\* carry into limb k of the exact product a * n, n a small integer
RECURSIVE MulCarry(_, _, _)
MulCarry(a, n, k) ==
    IF k = NLimbs THEN 0
    ELSE (a[k + 1] * n + MulCarry(a, n, k + 1)) \div Limb

ExactMul(a, n) ==
    [k \in 1..NLimbs |->
        IF k = 1 THEN a[k] * n + MulCarry(a, n, k)
        ELSE (a[k] * n + MulCarry(a, n, k)) % Limb]

\* number of bits of the natural n (0 for 0)
RECURSIVE BitLen(_)
BitLen(n) == IF n = 0 THEN 0 ELSE 1 + BitLen(n \div 2)

\* index (from 0 at the least significant fraction bit) of the leading 1
RECURSIVE MsbFrom(_, _)
MsbFrom(v, k) ==
    IF k > NLimbs THEN -1
    ELSE IF v[k] # 0 THEN LimbBits * (NLimbs - k) + BitLen(v[k]) - 1
    ELSE MsbFrom(v, k + 1)

Msb(v) == MsbFrom(v, 1)

\* the bits of v below bit c
LowBits(v, c) ==
    [k \in 1..NLimbs |->
        LET base == LimbBits * (NLimbs - k)
        IN  IF base + LimbBits <= c THEN v[k]
            ELSE IF base >= c THEN 0
            ELSE v[k] % (2^(c - base))]

\* 2^c as a value, 0 <= c < LimbBits * NLimbs
PowerOfTwo(c) ==
    [k \in 1..NLimbs |->
        LET base == LimbBits * (NLimbs - k)
        IN  IF base <= c /\ c < base + LimbBits THEN 2^(c - base) ELSE 0]

BitAt(v, c) == (v[NLimbs - (c \div LimbBits)] \div (2^(c % LimbBits))) % 2

\* round-to-nearest, ties-to-even, of the exact value v to a 53-bit
\* significand; sticky says that the exact result has non-zero bits below
\* the last limb
RoundValue(v, sticky) ==
    LET c == Msb(v) - (Mantissa - 1)
    IN  IF c <= 0 THEN v
        ELSE LET cmp  == Cmp(LowBits(v, c), PowerOfTwo(c - 1))
                 kept == ExactSub(v, LowBits(v, c))
             IN  IF cmp > 0 \/ (cmp = 0 /\ (sticky \/ BitAt(v, c) = 1))
                 THEN ExactAdd(kept, PowerOfTwo(c))
                 ELSE kept

\* the same, with the exact value computed once
Round(exact, sticky) ==
    CHOOSE r \in {RoundValue(v, sticky) : v \in {exact}} : TRUE

\* remainder entering limb k of the long division n / d
RECURSIVE DivRem(_, _, _)
DivRem(n, d, k) ==
    IF k = 1 THEN 0
    ELSE IF k = 2 THEN n % d
    ELSE (DivRem(n, d, k - 1) * Limb) % d

\* JavaScript n / d for integers 0 <= n < Limb, 0 < d < 2048
Div(n, d) ==
    Round([k \in 1..NLimbs |->
              IF k = 1 THEN n \div d ELSE (DivRem(n, d, k) * Limb) \div d],
          DivRem(n, d, NLimbs + 1) # 0)

\* JavaScript x * n for a double x and an integer 0 <= n < 1024
Mul(x, n) ==
    CHOOSE r \in {Round(ExactMul(a, n), FALSE) : a \in {x}} : TRUE

\* JavaScript x + y
Add(x, y) ==
    CHOOSE r \in {Round(ExactAdd(a, b), FALSE) : a \in {x}, b \in {y}} : TRUE

\* JavaScript x - y for x >= y
Sub(x, y) ==
    CHOOSE r \in {Round(ExactSub(a, b), FALSE) : a \in {x}, b \in {y}} : TRUE

\* Math.min(a, b)
Min(x, y) ==
    CHOOSE r \in {IF Less(b, a) THEN b ELSE a : a \in {x}, b \in {y}} : TRUE


\* Math.ceil(v)
Ceil(v) == IF IsInteger(v) THEN v ELSE FromInt(v[1] + 1)

\* x - y for any doubles: the sign and the magnitude of the result
Minus(x, y) ==
    CHOOSE r \in {IF Less(a, b) THEN [neg |-> TRUE, abs |-> Sub(b, a)]
                  ELSE [neg |-> FALSE, abs |-> Sub(a, b)]
                    : a \in {x}, b \in {y}} : TRUE

----------------------------------------------------------------------------
(* State *)

VARIABLES
    mounted,        \* "initial" (rendered, effects not run), "mounted", "unmounted"
    renderHandle,   \* the mount effect's local renderHandle
    handle,         \* useState handle
    subtitles,      \* useState subtitles: the decoded JSON value
    pending,        \* the values passed to setSubtitles since the last render
    runs,           \* the invocations of fetchSubtitles: position and closure handle
    watching,       \* watchStaticFile registered and not cancelled
    fileExists,     \* getStaticFiles() lists subtitlesFile
    delayed,        \* handles returned by delayRender
    continued,      \* calls of continueRender: the caller (a run of
                    \* fetchSubtitles, or Unmount) and the handle passed
    fps,            \* useVideoConfig().fps
    combineTokensWithinMilliseconds,
                    \* the threshold passed to createTikTokStyleCaptions
    pages,          \* pages returned by createTikTokStyleCaptions
    index,          \* pages mapped so far by pages.map
    rendered        \* the children pages.map has returned so far

hostVars == <<mounted, renderHandle, handle, subtitles, pending, runs, watching,
              fileExists, delayed, continued>>
configVars == <<fps, combineTokensWithinMilliseconds>>
renderVars == <<pages, index, rendered>>
mapVars == <<configVars, renderVars>>
vars == <<hostVars, mapVars>>

----------------------------------------------------------------------------
(* Bounds and inputs *)

MaxPages == 3
MaxRuns == 2
MaxCaptions == 3

SWITCH_CAPTIONS_EVERY_MS == 1200
MsPerSecond == 1000
CompositionFps == 30

StartMsValues == {0, 10, 30, 170, 1300, 28310, 50000}
FpsValues == {24, CompositionFps}

Caption(ms, txt) == [startMs |-> ms, text |-> txt]

\* The mapping reads only startMs of a page: it is checked for any sequence
\* of pages, each holding one caption.
Page(ms) == [startMs |-> ms, tokens |-> <<Caption(ms, "a")>>]
PageSeqs ==
    UNION {[1..n -> {Page(ms) : ms \in StartMsValues}] : n \in 0..MaxPages}

CaptionValues ==
    {Caption(0, "a"), Caption(100, "b"), Caption(700, "c"), Caption(1300, "d")}
ThresholdValues == {-100, 0, 700, SWITCH_CAPTIONS_EVERY_MS}

----------------------------------------------------------------------------
(* createTikTokStyleCaptions({combineTokensWithinMilliseconds, captions}) *)

\* The grouper is the function of the package @remotion/captions that the
\* component calls; its code is not part of this source, and it is modelled
\* from the description of the Caption Grouper: walk the captions once, start
\* a page with the first, append a caption whose gap to the current page's
\* start is below the threshold, otherwise open a new page at it.

\* mutant of Gap: the gap to the previous caption, a sliding window
GapFromPrevious(page, caption) ==
    caption.startMs - page.tokens[Len(page.tokens)].startMs
Gap(page, caption) == caption.startMs - page.startMs

\* mutant of NewPage: the caption that opens a page is left out of it
NewPageEmpty(caption) == [startMs |-> caption.startMs, tokens |-> <<>>]
NewPage(caption) == [startMs |-> caption.startMs, tokens |-> <<caption>>]

RECURSIVE GroupFrom(_, _, _, _)
GroupFrom(captions, k, thresholdMs, acc) ==
    IF k > Len(captions) THEN acc
    ELSE IF acc # <<>> /\ Gap(acc[Len(acc)], captions[k]) < thresholdMs
         THEN GroupFrom(captions, k + 1, thresholdMs,
                        [acc EXCEPT ![Len(acc)].tokens = Append(@, captions[k])])
         ELSE GroupFrom(captions, k + 1, thresholdMs,
                        Append(acc, NewPage(captions[k])))

createTikTokStyleCaptions(captions, thresholdMs) ==
    GroupFrom(captions, 1, thresholdMs, <<>>)

----------------------------------------------------------------------------
(* pages.map((page, index) => ...): one <Sequence> or null per page *)

NullElement == [kind |-> "null"]

subtitleStartFrame(page, f) == Mul(Div(page.startMs, MsPerSecond), f)

\* mutants of subtitleEndFrame: the cap converted from milliseconds to
\* frames; the end not clamped to the next page
subtitleEndFrameConverted(ps, i, f) ==
    LET cap == Add(subtitleStartFrame(ps[i], f),
                   Mul(Div(SWITCH_CAPTIONS_EVERY_MS, MsPerSecond), f))
    IN  IF i < Len(ps)
        THEN Min(subtitleStartFrame(ps[i + 1], f), cap)
        ELSE cap
subtitleEndFrameNoClamp(ps, i, f) ==
    Add(subtitleStartFrame(ps[i], f), FromInt(SWITCH_CAPTIONS_EVERY_MS))

\* nextPage ? (nextPage.startMs / 1000) * fps : Infinity, then Math.min
subtitleEndFrame(ps, i, f) ==
    LET cap == Add(subtitleStartFrame(ps[i], f),
                   FromInt(SWITCH_CAPTIONS_EVERY_MS))
    IN  IF i < Len(ps)
        THEN Min(subtitleStartFrame(ps[i + 1], f), cap)
        ELSE cap

durationInFrames(ps, i, f) ==
    Minus(subtitleEndFrame(ps, i, f), subtitleStartFrame(ps[i], f))

\* if (durationInFrames <= 0) return null
IsDroppedStrict(d) == d.neg
IsDropped(d) == d.neg \/ d.abs = Zero

SequenceElementNext(ps, i, f, d) ==
    [kind |-> "Sequence", key |-> i - 1,
     from |-> subtitleStartFrame(ps[i], f),
     durationInFrames |-> d.abs,
     page |-> IF i < Len(ps) THEN ps[i + 1] ELSE ps[i]]
SequenceElement(ps, i, f, d) ==
    [kind |-> "Sequence", key |-> i - 1,
     from |-> subtitleStartFrame(ps[i], f),
     durationInFrames |-> d.abs,
     page |-> ps[i]]

\* the callback of pages.map for the page at 1-based position i
MapCallback(ps, i, f) ==
    CHOOSE e \in {IF IsDropped(d) THEN NullElement
                  ELSE SequenceElement(ps, i, f, d)
                    : d \in {durationInFrames(ps, i, f)}} : TRUE

RenderPage ==
    /\ index < Len(pages)
    /\ rendered' = Append(rendered, MapCallback(pages, index + 1, fps))
    /\ index' = index + 1
    /\ UNCHANGED <<configVars, pages, hostVars>>

----------------------------------------------------------------------------
(* The component's effects and fetchSubtitles *)

Null == "null"
Handle == "wait video"
Unmount == 0
Run == 1..MaxRuns

\* what res.json() can resolve to: the file's JSON value, cast unchecked
\* to Caption[]
JsonArray(items) == [kind |-> "array", items |-> items]
JsonNull == [kind |-> "null", items |-> <<>>]
JsonObject == [kind |-> "object", items |-> <<>>]
CaptionFiles ==
    {JsonArray(<<>>),
     JsonArray(<<Caption(0, "a")>>),
     JsonArray(<<Caption(0, "a"), Caption(100, "b"), Caption(1300, "c")>>)}
JsonValues == CaptionFiles \cup {JsonNull, JsonObject}

\* captions: subtitles ?? []
Captions(s) == IF s = JsonNull THEN JsonArray(<<>>) ELSE s
GrouperInput == Captions(subtitles)

IdleRun == [pc |-> "idle", handle |-> Null]

\* the children pages.map returns for the pages ps
RenderedChildren(ps, f) == [k \in 1..Len(ps) |-> MapCallback(ps, k, f)]

\* the render of CaptionedVideo with subtitles = s, an array or null:
\* useMemo recomputes pages and pages.map returns the new children
Rerender(s) ==
    LET ps == createTikTokStyleCaptions(Captions(s).items,
                                        combineTokensWithinMilliseconds)
    IN  /\ pages' = ps
        /\ index' = Len(ps)
        /\ rendered' = RenderedChildren(ps, fps)

\* continueRender(h) called by c
ContinueRender(c, h) == continued \cup {[by |-> c, handle |-> h]}

\* the cleanups of the two effects: c.cancel(), and
\* if (renderHandle) continueRender(renderHandle)
Cleanup ==
    /\ mounted' = "unmounted"
    /\ watching' = FALSE
    /\ continued' = IF renderHandle # Null
                    THEN ContinueRender(Unmount, renderHandle)
                    ELSE continued

\* setSubtitles(v): the update is queued until the component renders again;
\* a state update of an unmounted component is dropped
SetSubtitles(v) ==
    IF mounted = "mounted"
    THEN pending' = Append(pending, v)
    ELSE UNCHANGED pending

\* React renders the component again after calls of setSubtitles: the
\* queued updates are applied in order, so subtitles is the last value set.
\* On a value that is not an array the grouper throws; nothing catches it,
\* so the component is unmounted and its cleanups run.
Render ==
    /\ mounted = "mounted"
    /\ pending # <<>>
    /\ subtitles' = pending[Len(pending)]
    /\ pending' = <<>>
    /\ IF Captions(pending[Len(pending)]).kind = "array"
       THEN /\ Rerender(pending[Len(pending)])
            /\ UNCHANGED <<mounted, watching, continued>>
       ELSE /\ Cleanup
            /\ UNCHANGED renderVars
    /\ UNCHANGED <<renderHandle, handle, runs, fileExists, delayed, configVars>>

\* the slot of the next invocation of fetchSubtitles
NextRun == CHOOSE r \in Run : runs[r].pc = "idle" /\
                               \A q \in Run : q < r => runs[q].pc # "idle"

\* fetchSubtitles() up to its first await: if (!handle) return; loadFont()
CallFetchSubtitles(h) ==
    IF h = Null THEN runs
    ELSE [runs EXCEPT ![NextRun] = [pc |-> "loadFont", handle |-> h]]

CanCall == \E r \in Run : runs[r].pc = "idle"

\* useEffect(() => { delayRender; setHandle }, []); the second effect sees
\* handle = null and does nothing
Mount ==
    /\ mounted = "initial"
    /\ mounted' = "mounted"
    /\ renderHandle' = Handle
    /\ delayed' = delayed \cup {Handle}
    /\ UNCHANGED <<handle, subtitles, pending, runs, watching, fileExists,
                   continued, mapVars>>

\* the render after setHandle(renderHandle), and the second effect:
\* if (handle) { fetchSubtitles(); watchStaticFile(...) }
CommitHandle ==
    /\ mounted = "mounted"
    /\ handle = Null
    /\ handle' = renderHandle
    /\ IF renderHandle # Null
       THEN /\ runs' = CallFetchSubtitles(renderHandle)
            /\ watching' = TRUE
       ELSE UNCHANGED <<runs, watching>>
    /\ UNCHANGED <<mounted, renderHandle, subtitles, pending, fileExists,
                   delayed, continued, mapVars>>

\* the subtitles file is added, changed or removed; the watcher's callback
\* calls fetchSubtitles()
StaticFileChanged(exists) ==
    /\ fileExists' = exists
    /\ IF watching
       THEN /\ CanCall
            /\ runs' = CallFetchSubtitles(handle)
       ELSE /\ fileExists # exists
            /\ UNCHANGED runs
    /\ UNCHANGED <<mounted, renderHandle, handle, subtitles, pending, watching,
                   delayed, continued, mapVars>>

\* mutant of Catch: the render is not continued after an error
CatchNoContinue(r) ==
    /\ SetSubtitles(JsonArray(<<>>))
    /\ continued' = continued
    /\ runs' = [runs EXCEPT ![r].pc = "done"]

\* catch (e) { setSubtitles([]); continueRender(handle) }
Catch(r) ==
    /\ SetSubtitles(JsonArray(<<>>))
    /\ continued' = ContinueRender(r, runs[r].handle)
    /\ runs' = [runs EXCEPT ![r].pc = "done"]

\* await loadFont() resolves; then the file-exists check and fetch()
LoadFontResolved(r) ==
    /\ runs[r].pc = "loadFont"
    /\ IF ~fileExists
       THEN /\ SetSubtitles(JsonArray(<<>>))
            /\ continued' = ContinueRender(r, runs[r].handle)
            /\ runs' = [runs EXCEPT ![r].pc = "done"]
       ELSE /\ runs' = [runs EXCEPT ![r].pc = "fetch"]
            /\ UNCHANGED <<pending, continued>>
    /\ UNCHANGED <<mounted, renderHandle, handle, watching, fileExists,
                   delayed, subtitles, mapVars>>

LoadFontRejected(r) ==
    /\ runs[r].pc = "loadFont"
    /\ Catch(r)
    /\ UNCHANGED <<mounted, renderHandle, handle, watching, fileExists,
                   delayed, subtitles, mapVars>>

\* await fetch(subtitlesFile) resolves; if (!res.ok) throw
FetchResolved(r, ok) ==
    /\ runs[r].pc = "fetch"
    /\ IF ok
       THEN /\ runs' = [runs EXCEPT ![r].pc = "json"]
            /\ UNCHANGED <<pending, continued>>
       ELSE Catch(r)
    /\ UNCHANGED <<mounted, renderHandle, handle, watching, fileExists,
                   delayed, subtitles, mapVars>>

FetchRejected(r) ==
    /\ runs[r].pc = "fetch"
    /\ Catch(r)
    /\ UNCHANGED <<mounted, renderHandle, handle, watching, fileExists,
                   delayed, subtitles, mapVars>>

\* await res.json() resolves; setSubtitles(data); continueRender(handle)
JsonResolved(r, data) ==
    /\ runs[r].pc = "json"
    /\ SetSubtitles(data)
    /\ continued' = ContinueRender(r, runs[r].handle)
    /\ runs' = [runs EXCEPT ![r].pc = "done"]
    /\ UNCHANGED <<mounted, renderHandle, handle, watching, fileExists,
                   delayed, subtitles, mapVars>>

JsonRejected(r) ==
    /\ runs[r].pc = "json"
    /\ Catch(r)
    /\ UNCHANGED <<mounted, renderHandle, handle, watching, fileExists,
                   delayed, subtitles, mapVars>>

\* the cleanups: c.cancel(), and if (renderHandle) continueRender
UnmountComponent ==
    /\ mounted = "mounted"
    /\ Cleanup
    /\ UNCHANGED <<renderHandle, handle, subtitles, pending, runs, fileExists,
                   delayed, mapVars>>

Settle(r) ==
    \/ LoadFontResolved(r)
    \/ LoadFontRejected(r)
    \/ \E ok \in BOOLEAN : FetchResolved(r, ok)
    \/ FetchRejected(r)
    \/ \E data \in JsonValues : JsonResolved(r, data)
    \/ JsonRejected(r)

----------------------------------------------------------------------------
(* Specifications *)

HostInit ==
    /\ mounted = "initial"
    /\ renderHandle = Null
    /\ handle = Null
    /\ subtitles = JsonArray(<<>>)
    /\ pending = <<>>
    /\ runs = [r \in Run |-> IdleRun]
    /\ watching = FALSE
    /\ delayed = {}
    /\ continued = {}

\* the component and its subtitle loading
Init ==
    /\ HostInit
    /\ fileExists \in BOOLEAN
    /\ fps = CompositionFps
    /\ combineTokensWithinMilliseconds = SWITCH_CAPTIONS_EVERY_MS
    /\ pages = <<>>
    /\ index = 0
    /\ rendered = <<>>

Next ==
    \/ Mount
    \/ CommitHandle
    \/ \E exists \in BOOLEAN : StaticFileChanged(exists)
    \/ \E r \in Run : LoadFontResolved(r)
    \/ \E r \in Run : LoadFontRejected(r)
    \/ \E r \in Run, ok \in BOOLEAN : FetchResolved(r, ok)
    \/ \E r \in Run : FetchRejected(r)
    \/ \E r \in Run, data \in JsonValues : JsonResolved(r, data)
    \/ \E r \in Run : JsonRejected(r)
    \/ Render
    \/ UnmountComponent

Spec == Init /\ [][Next]_vars

\* the renders after setHandle and setSubtitles happen and every promise
\* settles
FairSpec ==
    /\ Spec
    /\ WF_vars(CommitHandle)
    /\ WF_vars(Render)
    /\ \A r \in Run : WF_vars(Settle(r))

\* one render of the pages of the grouper, for any pages and frame rate
MapInit ==
    /\ HostInit
    /\ fileExists = FALSE
    /\ fps \in FpsValues
    /\ combineTokensWithinMilliseconds = SWITCH_CAPTIONS_EVERY_MS
    /\ pages \in PageSeqs
    /\ index = 0
    /\ rendered = <<>>

MapNext == RenderPage

MapSpec == MapInit /\ [][MapNext]_vars

\* the renders of the component as the captions arrive one by one, for any
\* captions and any threshold of the grouper
Regroup(caption) ==
    /\ Captions(subtitles).kind = "array"
    /\ Len(Captions(subtitles).items) < MaxCaptions
    /\ LET data == JsonArray(Append(Captions(subtitles).items, caption))
       IN  /\ subtitles' = data
           /\ Rerender(data)
    /\ UNCHANGED <<mounted, renderHandle, handle, pending, runs, watching,
                   fileExists, delayed, continued, configVars>>

GroupInit ==
    /\ HostInit
    /\ fileExists = FALSE
    /\ fps = CompositionFps
    /\ combineTokensWithinMilliseconds \in ThresholdValues
    /\ pages = <<>>
    /\ index = 0
    /\ rendered = <<>>

GroupNext == \E caption \in CaptionValues : Regroup(caption)

GroupSpec == GroupInit /\ [][GroupNext]_vars

----------------------------------------------------------------------------
(* Properties of the page mapping (MapSpec) *)

IsSequence(e) == e.kind = "Sequence"
Emitted == SelectSeq(rendered, IsSequence)
MapDone == index = Len(pages)
StartOf(k) == subtitleStartFrame(pages[k], fps)
EndOf(k) == subtitleEndFrame(pages, k, fps)
Monotone == \A k \in 1..(Len(pages) - 1) : pages[k].startMs <= pages[k + 1].startMs
One == FromInt(1)
MaxDuration == FromInt(SWITCH_CAPTIONS_EVERY_MS)

\* within 2^-20 of the whole number n
NearInt(v, n) ==
    \/ v[1] = n /\ v[2] = 0
    \/ v[1] = n - 1 /\ v[2] = Limb - 1

\* C1: no emitted <Sequence> has durationInFrames <= 0, and a page whose
\* computed duration (end frame minus start frame) is <= 0 yields null.
C1_NoNonPositiveDuration ==
    \A k \in 1..Len(rendered) :
        /\ IsSequence(rendered[k]) =>
               Less(Zero, rendered[k].durationInFrames)
        /\ LessEq(EndOf(k), StartOf(k)) => rendered[k] = NullElement

C1_Witness ==
    /\ MapDone
    /\ \E k \in 1..Len(rendered) :
           rendered[k] = NullElement /\ LessEq(EndOf(k), StartOf(k))
    /\ \E k \in 1..Len(rendered) : IsSequence(rendered[k])

\* C2: the emitted <Sequence> elements are a subsequence of the pages in
\* their order: one child per page mapped, each emitted element shows the
\* page of its own index, and the indices strictly increase.
C2_Subsequence ==
    /\ Len(rendered) = index
    /\ index <= Len(pages)
    /\ \A a \in 1..Len(Emitted) :
           /\ Emitted[a].key + 1 \in 1..Len(pages)
           /\ Emitted[a].page = pages[Emitted[a].key + 1]
           /\ rendered[Emitted[a].key + 1] = Emitted[a]
    /\ \A a, b \in 1..Len(Emitted) : a < b => Emitted[a].key < Emitted[b].key

C2_Witness ==
    /\ MapDone
    /\ Len(pages) = 3
    /\ Len(Emitted) = 2
    /\ rendered[2] = NullElement
    /\ pages[1] # pages[3]

\* the example of C3: pages at 0 and 1300 ms, fps 30
ExamplePages == <<Page(0), Page(1300)>>
ExampleRendered ==
    <<[kind |-> "Sequence", key |-> 0, from |-> Zero,
       durationInFrames |-> FromInt(39), page |-> Page(0)],
      [kind |-> "Sequence", key |-> 1, from |-> FromInt(39),
       durationInFrames |-> MaxDuration, page |-> Page(1300)]>>

C3_Formula ==
    \A k \in 1..Len(rendered) :
        IsSequence(rendered[k]) =>
            /\ rendered[k].from = Mul(Div(pages[k].startMs, 1000), fps)
            /\ rendered[k].durationInFrames =
                   Sub(IF k < Len(pages)
                       THEN Min(Mul(Div(pages[k + 1].startMs, 1000), fps),
                                Add(rendered[k].from, MaxDuration))
                       ELSE Add(rendered[k].from, MaxDuration),
                       rendered[k].from)

C3_Example ==
    (MapDone /\ pages = ExamplePages /\ fps = 30) => rendered = ExampleRendered

\* C3 as claimed: the formulas of start and duration, and the last page's
\* emitted duration is exactly 1200 frames for any fps.
C3_LastExactly1200 ==
    /\ C3_Formula
    /\ C3_Example
    /\ (MapDone /\ Len(pages) > 0) =>
           /\ IsSequence(rendered[Len(pages)])
           /\ rendered[Len(pages)].durationInFrames = MaxDuration

\* C3, amended: the formulas of start and duration hold with the 1200 added
\* as frames; the last page is always emitted and its duration is the double
\* (startFrame + 1200) - startFrame, which is exactly 1200 when startFrame
\* is a whole number (as in the example) and within 2^-20 of 1200 otherwise.
C3_LastNear1200 ==
    /\ C3_Formula
    /\ C3_Example
    /\ (MapDone /\ Len(pages) > 0) =>
           LET last == rendered[Len(pages)]
           IN  /\ IsSequence(last)
               /\ NearInt(last.durationInFrames, SWITCH_CAPTIONS_EVERY_MS)
               /\ IsInteger(last.from) => last.durationInFrames = MaxDuration

C3_Witness ==
    /\ MapDone
    /\ pages = ExamplePages
    /\ fps = 30
    /\ rendered[2].durationInFrames = MaxDuration
    /\ rendered[1].durationInFrames = FromInt(39)

\* C4 as claimed: of two consecutive pages with identical startMs the second
\* has a computed duration <= 0 and is dropped, and the first page's end is
\* clamped to the shared timestamp.
C4_SecondDropped ==
    \A k \in 1..(Len(rendered) - 1) :
        pages[k].startMs = pages[k + 1].startMs =>
            /\ rendered[k + 1] = NullElement
            /\ EndOf(k) = StartOf(k + 1)

\* C4, amended: the first page's end is clamped to the shared timestamp, so
\* it is the first page whose computed duration is 0 and which is dropped;
\* the second page's duration is decided by its own successor, and it is
\* emitted when it is the last page.
C4_FirstDropped ==
    \A k \in 1..(Len(pages) - 1) :
        pages[k].startMs = pages[k + 1].startMs =>
            /\ EndOf(k) = StartOf(k + 1)
            /\ durationInFrames(pages, k, fps) = [neg |-> FALSE, abs |-> Zero]
            /\ k <= Len(rendered) => rendered[k] = NullElement
            /\ (MapDone /\ k + 1 = Len(pages)) => IsSequence(rendered[k + 1])

C4_Witness ==
    /\ MapDone
    /\ \E k \in 1..(Len(pages) - 1) :
           /\ pages[k].startMs = pages[k + 1].startMs
           /\ rendered[k] = NullElement
           /\ IsSequence(rendered[k + 1])

\* C5 as claimed: every emitted durationInFrames is an integer >= 1.
C5_IntegerDuration ==
    \A k \in 1..Len(rendered) :
        IsSequence(rendered[k]) =>
            /\ IsInteger(rendered[k].durationInFrames)
            /\ LessEq(One, rendered[k].durationInFrames)

\* C5, amended: every emitted durationInFrames is > 0; it is an integer >= 1
\* when the page's start frame and the next page's start frame are whole
\* numbers, and may be fractional and below 1 otherwise.
C5_IntegerWhenFramesWhole ==
    \A k \in 1..Len(rendered) :
        IsSequence(rendered[k]) =>
            /\ Less(Zero, rendered[k].durationInFrames)
            /\ (/\ IsInteger(StartOf(k))
                /\ k < Len(pages) => IsInteger(StartOf(k + 1))) =>
                   /\ IsInteger(rendered[k].durationInFrames)
                   /\ LessEq(One, rendered[k].durationInFrames)

C5_Witness ==
    /\ MapDone
    /\ \E k \in 1..Len(rendered) :
           /\ IsSequence(rendered[k])
           /\ ~IsInteger(rendered[k].durationInFrames)
           /\ Less(rendered[k].durationInFrames, One)
    /\ \E k \in 1..Len(rendered) :
           /\ IsSequence(rendered[k])
           /\ IsInteger(StartOf(k))
           /\ k < Len(pages) => IsInteger(StartOf(k + 1))
           /\ IsInteger(rendered[k].durationInFrames)
           /\ LessEq(One, rendered[k].durationInFrames)

\* C10 as claimed: for pages in non-decreasing startMs order the emitted
\* intervals never overlap: from + durationInFrames of an earlier one is
\* <= from of a later one.
C10_EndBeforeNextStart ==
    Monotone =>
        \A a, b \in 1..Len(Emitted) :
            a < b => LessEq(Add(Emitted[a].from, Emitted[a].durationInFrames),
                            Emitted[b].from)

\* C10, amended: for pages in non-decreasing startMs order no whole frame
\* lies in two emitted intervals: from + durationInFrames of an earlier one
\* is <= the first whole frame at or after from of a later one; and it is
\* <= from of the later one when the earlier start and duration are whole.
C10_NoSharedFrame ==
    Monotone =>
        \A a, b \in 1..Len(Emitted) :
            a < b =>
                LET end == Add(Emitted[a].from, Emitted[a].durationInFrames)
                IN  /\ LessEq(end, Ceil(Emitted[b].from))
                    /\ (/\ IsInteger(Emitted[a].from)
                        /\ IsInteger(Emitted[a].durationInFrames)) =>
                           LessEq(end, Emitted[b].from)

C10_Witness ==
    /\ MapDone
    /\ Monotone
    /\ Len(pages) = 3
    /\ IsSequence(rendered[1])
    /\ rendered[2] = NullElement
    /\ IsSequence(rendered[3])
    /\ Less(rendered[3].from,
            Add(rendered[1].from, rendered[1].durationInFrames))

----------------------------------------------------------------------------
(* Properties of the grouper (GroupSpec) *)

RECURSIVE Flatten(_)
Flatten(ps) == IF ps = <<>> THEN <<>> ELSE ps[1].tokens \o Flatten(Tail(ps))

MonotoneCaptions ==
    \A k \in 1..(Len(subtitles.items) - 1) :
        subtitles.items[k].startMs <= subtitles.items[k + 1].startMs

\* C6: the tokens of all pages, concatenated in page order, are the caption
\* sequence that was grouped; every page is non-empty and its startMs is the
\* startMs of its first token.
C6_RoundTrip ==
    /\ Flatten(pages) = subtitles.items
    /\ \A j \in 1..Len(pages) :
           /\ pages[j].tokens # <<>>
           /\ pages[j].startMs = pages[j].tokens[1].startMs

C6_Witness ==
    /\ Len(subtitles.items) = 3
    /\ Len(pages) = 2
    /\ Len(pages[1].tokens) = 2
    /\ subtitles.items[1] # subtitles.items[2]
    /\ Flatten(pages) = subtitles.items

\* C7: a caption is in the page of the caption before it if and only if its
\* startMs minus that page's startMs is below the threshold; so for captions
\* in non-decreasing startMs order every token is less than the threshold
\* after its page's first token, every later page starts at least the
\* threshold after the page before it, and with a threshold <= 0 every
\* caption is a page of its own.
C7_AnchoredToPageStart ==
    LET t == combineTokensWithinMilliseconds
    IN  /\ \A j \in 1..Len(pages) :
               \A i \in 2..Len(pages[j].tokens) :
                   pages[j].tokens[i].startMs - pages[j].startMs < t
        /\ \A j \in 2..Len(pages) :
               ~(pages[j].tokens[1].startMs - pages[j - 1].startMs < t)
        /\ MonotoneCaptions =>
               /\ \A j \in 1..Len(pages) :
                      \A i \in 2..Len(pages[j].tokens) :
                          /\ pages[j].tokens[1].startMs <= pages[j].tokens[i].startMs
                          /\ pages[j].tokens[i].startMs <
                                 pages[j].tokens[1].startMs + t
               /\ \A j \in 2..Len(pages) :
                      pages[j].tokens[1].startMs >= pages[j - 1].startMs + t
               /\ t <= 0 =>
                      /\ Len(pages) = Len(subtitles.items)
                      /\ \A j \in 1..Len(pages) :
                             pages[j].tokens = <<subtitles.items[j]>>

C7_Witness ==
    /\ combineTokensWithinMilliseconds = SWITCH_CAPTIONS_EVERY_MS
    /\ subtitles.items =
           <<Caption(0, "a"), Caption(700, "c"), Caption(1300, "d")>>
    /\ Len(pages) = 2
    /\ pages[2].tokens = <<Caption(1300, "d")>>

----------------------------------------------------------------------------
(* Properties of the subtitle loading (Spec, FairSpec) *)

ByRun(r) == [by |-> r, handle |-> runs[r].handle]
Started(r) == runs[r].pc # "idle"

\* C8: after any runs of fetchSubtitles the value handed to the grouper is
\* a caption sequence (possibly empty), and no run ends outside the catch.
C8_GrouperInputIsCaptions ==
    /\ GrouperInput.kind = "array"
    /\ \A r \in Run : runs[r].pc \in {"idle", "loadFont", "fetch", "json", "done"}

\* C9: continueRender is only called with the handle delayRender returned;
\* fetchSubtitles does nothing while handle is null; a finished run has
\* called continueRender with its handle, and so has the unmount cleanup;
\* every started run eventually calls continueRender, and once the handle
\* is created the render is eventually continued.
C9_RenderUnblocked ==
    /\ [](\A c \in continued : c.handle \in delayed)
    /\ [](handle = Null => \A r \in Run : ~Started(r))
    /\ [](\A r \in Run : runs[r].pc = "done" =>
              /\ runs[r].handle = renderHandle
              /\ ByRun(r) \in continued)
    /\ [](mounted = "unmounted" =>
              [by |-> Unmount, handle |-> renderHandle] \in continued)
    /\ \A r \in Run : Started(r) ~> (ByRun(r) \in continued)
    /\ (renderHandle # Null) ~> (\E c \in continued : c.handle = renderHandle)

C9_Witness ==
    /\ mounted = "unmounted"
    /\ \A r \in Run : runs[r].pc = "done" /\ ByRun(r) \in continued
    /\ [by |-> Unmount, handle |-> renderHandle] \in continued
    /\ subtitles = JsonArray(<<>>)

====
